---- MODULE Spec2Model ----
(***************************************************************************)
(* The meeting-transcription pipeline of src/test_models: the driver       *)
(* run_complete_pipeline and its four stages (perform_diarization,         *)
(* perform_speech_recognition, test_correction, test_summarization), the   *)
(* minutes formatter and the metrics report.                               *)
(*                                                                         *)
(* The four pretrained models are opaque collaborators: every call either  *)
(* returns one value of a small set or raises.  Texts are sequences of     *)
(* one-character strings.  Times are in tenths of a second.  Wall-clock    *)
(* timings (execution_time, processing times) and the averages computed    *)
(* from them are not modelled, nor is read_csv's inference of a numeric    *)
(* column type: no text of the model is a number.                          *)
(***************************************************************************)
EXTENDS Integers, Sequences, FiniteSets

\* ------------------------------------------------------------------ bounds

\* Longest sequence of turns the diarization model yields.
MaxTurns == 2

\* A configured summarization input limit below the fallback length.
SmallMaxLength == 4

\* ------------------------------------------------------- program constants

\* ModelConfig.MIN_SEGMENT_DURATION = 0.5 seconds, in tenths of a second.
MIN_SEGMENT_DURATION == 5

\* ModelConfig.MAX_SUMMARY_INPUT_LENGTH, characters.
MAX_SUMMARY_INPUT_LENGTH == 2000

\* input_text[:200] in summarize_text's except branch.
FALLBACK_LENGTH == 200

\* --------------------------------------------------------------- texts

Whitespace == {" "}

\* No temporary file named yet.
NoTemp == << >>

\* A float NaN in a table cell (pandas' missing value); no text equals it.
NaN == <<"float-nan">>

IsStr(v) == v # NaN

T_empty == << >>
T_dot == <<".">>
T_dots == <<".", ".", ".">>
T_Hi == <<"H", "i", ".">>
T_there == <<"t", "h", "e", "r", "e", ".">>
T_NA == <<"N", "A">>
T_helo == <<"h", "e", "l", "o", " ", "w", "r", "l", "d">>

\* A text of n characters.
Filler(n) == [i \in 1..n |-> "x"]

\* str.strip(): leading and trailing whitespace removed.
RECURSIVE LStrip(_)
LStrip(s) ==
    IF s # << >> /\ Head(s) \in Whitespace THEN LStrip(Tail(s)) ELSE s

RECURSIVE RStrip(_)
RStrip(s) ==
    IF s # << >> /\ s[Len(s)] \in Whitespace
    THEN RStrip(SubSeq(s, 1, Len(s) - 1))
    ELSE s

strip(s) == RStrip(LStrip(s))

\* len(text.split()): the number of maximal runs of non-whitespace.
RECURSIVE WordCount(_)
WordCount(s) ==
    IF s = << >> THEN 0
    ELSE IF Head(s) \in Whitespace THEN WordCount(Tail(s))
    ELSE IF Len(s) = 1 \/ s[2] \in Whitespace THEN 1 + WordCount(Tail(s))
    ELSE WordCount(Tail(s))

\* text[:n]
Prefix(s, n) == SubSeq(s, 1, IF n < Len(s) THEN n ELSE Len(s))

\* "".join(texts): the separator left out.
RECURSIVE JoinWithSpace_no_separator(_)
JoinWithSpace_no_separator(texts) ==
    IF texts = << >> THEN << >>
    ELSE texts[1] \o JoinWithSpace_no_separator(Tail(texts))

\* " ".join(texts)
RECURSIVE JoinWithSpace(_)
JoinWithSpace(texts) ==
    IF texts = << >> THEN << >>
    ELSE IF Len(texts) = 1 THEN texts[1]
    ELSE texts[1] \o <<" ">> \o JoinWithSpace(Tail(texts))

Max(a, b) == IF a > b THEN a ELSE b

\* ------------------------------------------------------------- csv files

\* A path with no file at it, and a file holding rows.
NoFile == [exists |-> FALSE, rows |-> << >>]

File(rows) == [exists |-> TRUE, rows |-> rows]

\* The strings pandas.read_csv reads as a missing value (default na_values).
NaStrings ==
    { T_empty, T_NA,
      <<"N", "a", "N">>, <<"n", "a", "n">>, <<"N", "U", "L", "L">>,
      <<"n", "u", "l", "l">>, <<"N", "o", "n", "e">>, <<"N", "/", "A">>,
      <<"n", "/", "a">> }

\* DataFrame.to_csv of one text cell: a missing value is written empty.
ToCsvField(v) == IF v = NaN THEN T_empty ELSE v

\* pandas.read_csv of one text cell.
ReadCsvField(f) == IF f \in NaStrings THEN NaN ELSE f

\* ------------------------------------------------------------ the inputs

\* The speaker labels, in sorted order.
SpeakerOrder == << "A", "B" >>

Speakers == { SpeakerOrder[i] : i \in DOMAIN SpeakerOrder }

\* The turns the diarization model may yield (speaker, start, end), in any
\* order: one below MIN_SEGMENT_DURATION, one exactly at it, two that start
\* together.
Turns ==
    { [speaker |-> "A", start |-> 0, end |-> 5],
      [speaker |-> "B", start |-> 0, end |-> 6],
      [speaker |-> "B", start |-> 3, end |-> 7],
      [speaker |-> "A", start |-> 20, end |-> 30] }

TurnSeqs == UNION { [1..n -> Turns] : n \in 0..MaxTurns }

\* What asr_pipeline(temp_file)["text"] may be.
AsrTexts ==
    { T_empty, <<" ", ".">>, T_dots, <<" ">> \o T_helo \o <<" ">>, T_NA }

\* What the correction model may decode.
CorrectionTexts ==
    { T_Hi, T_there, T_empty, Filler(MAX_SUMMARY_INPUT_LENGTH + 1) }

\* What the summarization tokenizer may decode.
SummaryTexts == { <<" ", "S", " ">>, T_empty }

\* The configured ModelConfig.MAX_SUMMARY_INPUT_LENGTH.
ConfiguredMaxLengths == { MAX_SUMMARY_INPUT_LENGTH, SmallMaxLength }

\* The scripts that can be started: run_all_tests.py and test_diarization.py.
Entries == { "run_all_tests", "test_diarization" }

Stages == << "diarization", "asr", "correction", "summarization" >>

\* ------------------------------------------------------------- the state

VARIABLES
    pc,                       \* the position of the running script
    entry,                    \* the script that was started
    audio_exists,             \* os.path.exists(input_audio_file)
    max_summary_input_length, \* ModelConfig.MAX_SUMMARY_INPUT_LENGTH
    models_loaded,            \* the models loaded so far
    error,                    \* the exception that ended the run, or "none"
    error_reported,           \* __main__ printed "Audio file ... not found"
    diarization_csv,          \* <prefix>_diarization.csv
    asr_csv,                  \* <prefix>_asr.csv
    correction_csv,           \* <prefix>_correction.csv
    summarization_csv,        \* <prefix>_summarization.csv
    minutes_txt,              \* <prefix>_meeting_minutes.txt
    metrics_json,             \* <prefix>_metrics.json
    temp_files,               \* the temp_<speaker>_<index>.wav files on disk
    all_metrics,              \* run_complete_pipeline's all_metrics
    stage_return,             \* (dataframe, metrics) a stage has returned
    input_dataframe,          \* the table the running stage has read
    results,                  \* the rows the running stage has accumulated
    index,                    \* the running stage's loop position
    successes,                \* successful_corrections / successful_summaries
    speaker_texts,            \* test_summarization's speaker_texts
    temp_file,                \* transcribe_audio_segments' temp_file
    model_calls,              \* the running stage's model calls and outcomes
    log                       \* the files written and stages completed, in order

vars ==
    << pc, entry, audio_exists, max_summary_input_length, models_loaded, error,
       error_reported, diarization_csv, asr_csv, correction_csv,
       summarization_csv, minutes_txt, metrics_json, temp_files, all_metrics,
       stage_return, input_dataframe, results, index, successes,
       speaker_texts, temp_file, model_calls, log >>

files ==
    << diarization_csv, asr_csv, correction_csv, summarization_csv,
       minutes_txt, metrics_json >>

locals ==
    << input_dataframe, results, index, successes, speaker_texts, temp_file,
       model_calls >>

config == << entry, audio_exists, max_summary_input_length >>

NoReturn == [dataframe |-> << >>, metrics |-> [none |-> 0]]

EmptyMetrics == [k \in {} |-> 0]

Init ==
    /\ pc = "main"
    /\ entry \in Entries
    /\ audio_exists \in BOOLEAN
    /\ max_summary_input_length \in ConfiguredMaxLengths
    /\ models_loaded = {}
    /\ error = "none"
    /\ error_reported = FALSE
    /\ diarization_csv = NoFile
    /\ asr_csv = NoFile
    /\ correction_csv = NoFile
    /\ summarization_csv = NoFile
    /\ minutes_txt = NoFile
    /\ metrics_json = NoFile
    /\ temp_files = {}
    /\ all_metrics = EmptyMetrics
    /\ stage_return = NoReturn
    /\ input_dataframe = << >>
    /\ results = << >>
    /\ index = 1
    /\ successes = 0
    /\ speaker_texts = << >>
    /\ temp_file = NoTemp
    /\ model_calls = << >>
    /\ log = << >>

\* A stage's locals as the next stage finds them.
ResetLocals ==
    /\ input_dataframe' = << >>
    /\ results' = << >>
    /\ index' = 1
    /\ successes' = 0
    /\ speaker_texts' = << >>
    /\ temp_file' = NoTemp
    /\ model_calls' = << >>

\* all_metrics[stage] = metrics
WithMetrics(metrics, stage, value) ==
    [k \in DOMAIN metrics \cup {stage} |-> IF k = stage THEN value ELSE metrics[k]]

SpeakersOf(rows) == { rows[i].speaker : i \in DOMAIN rows }

\* successes / total if total > 0 else 0, as a fraction <<numerator, denominator>>
Rate(n, total) == IF total > 0 THEN << n, total >> ELSE << 0, 1 >>

\* --------------------------------------------------- run_all_tests __main__

\* if not os.path.exists(input_audio_file): print the error; else run.
AudioFileFound == audio_exists

RunAllTestsMain ==
    /\ pc = "main"
    /\ entry = "run_all_tests"
    /\ IF AudioFileFound
       THEN /\ pc' = "perform_diarization"
            /\ UNCHANGED error_reported
       ELSE /\ pc' = "exited"
            /\ error_reported' = TRUE
    /\ UNCHANGED << config, models_loaded, error, files, temp_files, all_metrics,
                    stage_return, locals, log >>

\* test_diarization.py __main__: perform_diarization("1.wav", ...) at once.
TestDiarizationMain ==
    /\ pc = "main"
    /\ entry = "test_diarization"
    /\ pc' = "perform_diarization"
    /\ UNCHANGED << config, models_loaded, error, error_reported, files,
                    temp_files, all_metrics, stage_return, locals, log >>

\* ------------------------------------------------------ perform_diarization

LoadDiarizationModel ==
    /\ pc = "perform_diarization"
    /\ models_loaded' = models_loaded \cup {"diarization"}
    /\ pc' = "diarize"
    /\ UNCHANGED << config, error, error_reported, files, temp_files,
                    all_metrics, stage_return, locals, log >>

\* The filter with <= for <: a turn exactly at the minimum is dropped.
KeepTurn_above_minimum(turn) == ~(turn.end - turn.start <= MIN_SEGMENT_DURATION)

\* if turn.end - turn.start < MIN_SEGMENT_DURATION: continue
KeepTurn(turn) == ~(turn.end - turn.start < MIN_SEGMENT_DURATION)

SegmentOfTurn(turn) ==
    [ speaker |-> turn.speaker, start_time |-> turn.start,
      end_time |-> turn.end, duration |-> turn.end - turn.start ]

RECURSIVE DiarizationSegments(_)
DiarizationSegments(turns) ==
    IF turns = << >> THEN << >>
    ELSE IF KeepTurn(Head(turns))
         THEN << SegmentOfTurn(Head(turns)) >> \o DiarizationSegments(Tail(turns))
         ELSE DiarizationSegments(Tail(turns))

IndexOrders(n) ==
    { p \in [1..n -> 1..n] : \A i, j \in 1..n : i # j => p[i] # p[j] }

IsSortedByStartTime(rows) ==
    \A i \in 1..(Len(rows) - 1) : rows[i].start_time <= rows[i + 1].start_time

\* The table written in the order the rows were collected: no sort_values.
SortByStartTime_unsorted(rows) == { rows }

\* sort_values("start_time").reset_index(drop=True): the default quicksort
\* is not stable, so rows that start together come out in either order.
SortByStartTime(rows) ==
    { sorted \in { [i \in 1..Len(rows) |-> rows[p[i]]] : p \in IndexOrders(Len(rows)) } :
        IsSortedByStartTime(sorted) }

RECURSIVE MaxEndTime(_)
MaxEndTime(rows) ==
    IF rows = << >> THEN 0 ELSE Max(Head(rows).end_time, MaxEndTime(Tail(rows)))

DiarizationMetrics(rows) ==
    [ segments_count |-> Len(rows),
      speakers_count |-> Cardinality(SpeakersOf(rows)),
      audio_duration |-> MaxEndTime(rows) ]

\* diarization_pipeline(audio_file_path) and everything after it; the turns
\* the model yielded are kept in model_calls.
Diarize ==
    /\ pc = "diarize"
    /\ IF ~audio_exists
       THEN /\ error' = "FileNotFoundError"
            /\ pc' = "raised"
            /\ UNCHANGED << diarization_csv, stage_return, model_calls, log >>
       ELSE \E turns \in TurnSeqs :
              LET segments == DiarizationSegments(turns) IN
              /\ error' = error
              /\ pc' = "after_diarization"
              /\ model_calls' = turns
              /\ IF segments # << >>
                 THEN \E sorted \in SortByStartTime(segments) :
                        /\ diarization_csv' = File(sorted)
                        /\ log' = Append(log, "diarization_csv")
                        /\ stage_return' =
                             [dataframe |-> sorted, metrics |-> DiarizationMetrics(sorted)]
                 ELSE /\ stage_return' =
                             [dataframe |-> << >>, metrics |-> [segments_count |-> 0]]
                      /\ UNCHANGED << diarization_csv, log >>
    /\ UNCHANGED << config, models_loaded, error_reported, asr_csv, correction_csv,
                    summarization_csv, minutes_txt, metrics_json, temp_files,
                    all_metrics, input_dataframe, results, index, successes,
                    speaker_texts, temp_file >>

\* ------------------------------------------------- run_complete_pipeline

\* The driver with the emptiness checks left out.
StopsOnEmpty_never(dataframe) == FALSE

\* if diarization_dataframe.empty / if asr_dataframe.empty: return all_metrics
StopsOnEmpty(dataframe) == dataframe = << >>

\* The driver with the report saved before the minutes are written.
DriverNext_report_first(step) ==
    CASE step = "diarization" -> "perform_speech_recognition"
      [] step = "asr" -> "test_correction"
      [] step = "correction" -> "test_summarization"
      [] step = "summarization" -> "save_metrics"
      [] step = "report" -> "create_meeting_minutes"
      [] step = "minutes" -> "returned"

\* The order of run_complete_pipeline's statements: what follows each step.
DriverNext(step) ==
    CASE step = "diarization" -> "perform_speech_recognition"
      [] step = "asr" -> "test_correction"
      [] step = "correction" -> "test_summarization"
      [] step = "summarization" -> "create_meeting_minutes"
      [] step = "minutes" -> "save_metrics"
      [] step = "report" -> "returned"

\* all_metrics["diarization"] = ...; stop on an empty table.
AfterDiarization ==
    /\ pc = "after_diarization"
    /\ IF entry = "test_diarization"
       THEN /\ pc' = "exited"
            /\ UNCHANGED all_metrics
       ELSE /\ all_metrics' = WithMetrics(all_metrics, "diarization", stage_return.metrics)
            /\ pc' = IF StopsOnEmpty(stage_return.dataframe)
                     THEN "returned"
                     ELSE DriverNext("diarization")
    /\ log' = Append(log, "diarization")
    /\ stage_return' = NoReturn
    /\ ResetLocals
    /\ UNCHANGED << config, models_loaded, error, error_reported, files,
                    temp_files >>

\* ----------------------------------------------- perform_speech_recognition

\* extract_audio_segments labelling every segment with the first row's speaker.
ExtractAudioSegments_first_speaker(dataframe) ==
    [ i \in 1..Len(dataframe) |->
        [ speaker |-> dataframe[1].speaker,
          start_time |-> dataframe[i].start_time,
          end_time |-> dataframe[i].end_time,
          duration |-> dataframe[i].duration,
          segment_index |-> i - 1 ] ]

\* extract_audio_segments: one segment per diarization row, with its 0-based
\* row label as segment_index.
ExtractAudioSegments(dataframe) ==
    [ i \in 1..Len(dataframe) |->
        [ speaker |-> dataframe[i].speaker,
          start_time |-> dataframe[i].start_time,
          end_time |-> dataframe[i].end_time,
          duration |-> dataframe[i].duration,
          segment_index |-> i - 1 ] ]

\* load_asr_model(); pd.read_csv(diarization_csv_path); extract_audio_segments
LoadAsrModel ==
    /\ pc = "perform_speech_recognition"
    /\ models_loaded' = models_loaded \cup {"asr"}
    /\ IF ~diarization_csv.exists \/ ~audio_exists
       THEN /\ error' = "FileNotFoundError"
            /\ pc' = "raised"
            /\ UNCHANGED locals
       ELSE /\ input_dataframe' = ExtractAudioSegments(diarization_csv.rows)
            /\ pc' = "transcribe"
            /\ UNCHANGED << error, results, index, successes, speaker_texts, temp_file,
                            model_calls >>
    /\ UNCHANGED << config, error_reported, files, temp_files, all_metrics,
                    stage_return, log >>

\* f"temp_{segment['speaker']}_{segment['segment_index']}.wav"
TempFileName(segment) == << "temp", segment.speaker, segment.segment_index >>

\* What one pass through the try block can meet: the export raises (with the
\* file created or not), the transcription raises, or it returns a text.
AsrOutcomes ==
    { [kind |-> "export_raises", created |-> c, text |-> T_empty] : c \in BOOLEAN }
    \cup { [kind |-> "asr_raises", created |-> TRUE, text |-> T_empty] }
    \cup { [kind |-> "returns", created |-> TRUE, text |-> t] : t \in AsrTexts }

\* The filter with the placeholder list left out: if text
IsSpeech_any_text(text) == text # T_empty

\* if text and text not in ["", ".", "..."]
IsSpeech(text) == text # T_empty /\ text \notin { T_empty, T_dot, T_dots }

TranscriptRow(segment, text) ==
    [ speaker |-> segment.speaker, start_time |-> segment.start_time,
      end_time |-> segment.end_time, duration |-> segment.duration,
      text |-> text, word_count |-> WordCount(text) ]

\* The rows after the try block of one segment.
TranscribeResult(rows, segment, outcome) ==
    IF outcome.kind = "returns" /\ IsSpeech(strip(outcome.text))
    THEN Append(rows, TranscriptRow(segment, strip(outcome.text)))
    ELSE rows

\* The try/except of one loop iteration of transcribe_audio_segments.
TranscribeTry ==
    /\ pc = "transcribe"
    /\ index <= Len(input_dataframe)
    /\ \E outcome \in AsrOutcomes :
         LET segment == input_dataframe[index] IN
         /\ temp_file' = TempFileName(segment)
         /\ temp_files' = IF outcome.created
                          THEN temp_files \cup { TempFileName(segment) }
                          ELSE temp_files
         /\ results' = TranscribeResult(results, segment, outcome)
         /\ model_calls' = Append(model_calls, outcome)
    /\ pc' = "transcribe_finally"
    /\ UNCHANGED << config, models_loaded, error, error_reported, files,
                    all_metrics, stage_return, input_dataframe, index, successes,
                    speaker_texts, log >>

\* The loop with the finally block left out.
RemoveTempFile_never(existing, name) == existing

\* finally: if os.path.exists(temp_file): os.remove(temp_file)
RemoveTempFile(existing, name) == existing \ { name }

TranscribeFinally ==
    /\ pc = "transcribe_finally"
    /\ temp_files' = RemoveTempFile(temp_files, temp_file)
    /\ index' = index + 1
    /\ pc' = "transcribe"
    /\ UNCHANGED << config, models_loaded, error, error_reported, files,
                    all_metrics, stage_return, input_dataframe, results, successes,
                    speaker_texts, temp_file, model_calls, log >>

RECURSIVE TotalWords(_)
TotalWords(rows) ==
    IF rows = << >> THEN 0 ELSE Head(rows).word_count + TotalWords(Tail(rows))

AsrMetrics(rows, segments) ==
    [ segments_processed |-> Len(segments),
      segments_with_speech |-> Len(rows),
      success_rate |-> Rate(Len(rows), Len(segments)),
      total_words |-> TotalWords(rows),
      speakers_count |-> Cardinality(SpeakersOf(rows)) ]

\* DataFrame.to_csv of a table with text columns.
ToCsv(rows, columns) ==
    [ i \in 1..Len(rows) |->
        [ c \in DOMAIN rows[i] |->
            IF c \in columns THEN ToCsvField(rows[i][c]) ELSE rows[i][c] ] ]

\* pd.read_csv of a table with text columns.
ReadCsv(file, columns) ==
    [ i \in 1..Len(file.rows) |->
        [ c \in DOMAIN file.rows[i] |->
            IF c \in columns THEN ReadCsvField(file.rows[i][c]) ELSE file.rows[i][c] ] ]

\* The rest of perform_speech_recognition, once the loop has ended.
FinishSpeechRecognition ==
    /\ pc = "transcribe"
    /\ index > Len(input_dataframe)
    /\ pc' = "after_asr"
    /\ IF results # << >>
       THEN \E sorted \in SortByStartTime(results) :
              /\ asr_csv' = File(ToCsv(sorted, {"text"}))
              /\ log' = Append(log, "asr_csv")
              /\ stage_return' =
                   [dataframe |-> sorted, metrics |-> AsrMetrics(sorted, input_dataframe)]
       ELSE /\ stage_return' =
                   [dataframe |-> << >>,
                    metrics |-> [segments_processed |-> Len(input_dataframe)]]
            /\ UNCHANGED << asr_csv, log >>
    /\ UNCHANGED << config, models_loaded, error, error_reported, diarization_csv,
                    correction_csv, summarization_csv, minutes_txt, metrics_json,
                    temp_files, all_metrics, locals >>

\* all_metrics["asr"] = ...; stop on an empty table.
AfterSpeechRecognition ==
    /\ pc = "after_asr"
    /\ all_metrics' = WithMetrics(all_metrics, "asr", stage_return.metrics)
    /\ pc' = IF StopsOnEmpty(stage_return.dataframe) THEN "returned" ELSE DriverNext("asr")
    /\ log' = Append(log, "asr")
    /\ stage_return' = NoReturn
    /\ ResetLocals
    /\ UNCHANGED << config, models_loaded, error, error_reported, files,
                    temp_files >>

\* ---------------------------------------------------------- test_correction

\* load_correction_model(); pd.read_csv(input_csv_path)
LoadCorrectionModel ==
    /\ pc = "test_correction"
    /\ models_loaded' = models_loaded \cup {"correction"}
    /\ IF ~asr_csv.exists
       THEN /\ error' = "FileNotFoundError"
            /\ pc' = "raised"
            /\ UNCHANGED locals
       ELSE /\ input_dataframe' = ReadCsv(asr_csv, {"text"})
            /\ pc' = "correct"
            /\ UNCHANGED << error, results, index, successes, speaker_texts,
                            temp_file, model_calls >>
    /\ UNCHANGED << config, error_reported, files, temp_files, all_metrics,
                    stage_return, log >>

\* What the tokenizer and model do with one text: raise, or decode a text.
\* The tokenizer raises on anything that is not a string.
CorrectionOutcomes(input_text) ==
    { [kind |-> "raises", text |-> T_empty] }
    \cup IF IsStr(input_text)
         THEN { [kind |-> "returns", text |-> t] : t \in CorrectionTexts }
         ELSE {}

\* correct_text with an empty text, not the input, as the fallback.
correct_text_empty_fallback(input_text, outcome) ==
    IF outcome.kind = "returns"
    THEN [text |-> outcome.text, success |-> TRUE]
    ELSE [text |-> T_empty, success |-> FALSE]

\* correct_text: (corrected_text, True), or (input_text, False) on an exception.
correct_text(input_text, outcome) ==
    IF outcome.kind = "returns"
    THEN [text |-> outcome.text, success |-> TRUE]
    ELSE [text |-> input_text, success |-> FALSE]

\* One iteration of test_correction's loop.
CorrectSegment ==
    /\ pc = "correct"
    /\ index <= Len(input_dataframe)
    /\ \E outcome \in CorrectionOutcomes(input_dataframe[index].text) :
         LET r == correct_text(input_dataframe[index].text, outcome) IN
         /\ results' = Append(results, r.text)
         /\ successes' = IF r.success THEN successes + 1 ELSE successes
         /\ model_calls' = Append(model_calls, outcome)
    /\ index' = index + 1
    /\ UNCHANGED << pc, config, models_loaded, error, error_reported, files,
                    temp_files, all_metrics, stage_return, input_dataframe,
                    speaker_texts, temp_file, log >>

\* input_dataframe["corrected_text"] = corrected_texts
WithCorrectedText(dataframe, corrected_texts) ==
    [ i \in 1..Len(dataframe) |->
        [ c \in DOMAIN dataframe[i] \cup {"corrected_text"} |->
            IF c = "corrected_text" THEN corrected_texts[i] ELSE dataframe[i][c] ] ]

\* sum(len(text) for text in input_dataframe["text"]) has a value only when
\* every text is a string: len() of a float raises TypeError.
AllTextsAreStrings(dataframe) == \A i \in DOMAIN dataframe : IsStr(dataframe[i].text)

RECURSIVE TotalCharacters(_)
TotalCharacters(dataframe) ==
    IF dataframe = << >> THEN 0
    ELSE Len(Head(dataframe).text) + TotalCharacters(Tail(dataframe))

CorrectionMetrics(dataframe, successful_corrections) ==
    [ segments_count |-> Len(dataframe),
      successful_corrections |-> successful_corrections,
      success_rate |-> Rate(successful_corrections, Len(dataframe)),
      total_characters_processed |-> TotalCharacters(dataframe) ]

\* test_correction writing its table over the table it read.
FinishCorrection_overwrites_input ==
    /\ pc = "correct"
    /\ index > Len(input_dataframe)
    /\ LET corrected == WithCorrectedText(input_dataframe, results) IN
       /\ input_dataframe' = corrected
       /\ asr_csv' = File(ToCsv(corrected, {"text", "corrected_text"}))
       /\ log' = Append(log, "asr_csv")
       /\ IF AllTextsAreStrings(corrected)
          THEN /\ stage_return' =
                    [dataframe |-> corrected,
                     metrics |-> CorrectionMetrics(corrected, successes)]
               /\ pc' = "after_correction"
               /\ UNCHANGED error
          ELSE /\ error' = "TypeError"
               /\ pc' = "raised"
               /\ UNCHANGED stage_return
    /\ UNCHANGED << config, models_loaded, error_reported, diarization_csv,
                    correction_csv, summarization_csv, minutes_txt, metrics_json, temp_files,
                    all_metrics, results, index, successes, speaker_texts,
                    temp_file, model_calls >>

\* The rest of test_correction, once the loop has ended: the table is
\* written before the metrics are computed.
FinishCorrection ==
    /\ pc = "correct"
    /\ index > Len(input_dataframe)
    /\ LET corrected == WithCorrectedText(input_dataframe, results) IN
       /\ input_dataframe' = corrected
       /\ correction_csv' = File(ToCsv(corrected, {"text", "corrected_text"}))
       /\ log' = Append(log, "correction_csv")
       /\ IF AllTextsAreStrings(corrected)
          THEN /\ stage_return' =
                    [dataframe |-> corrected,
                     metrics |-> CorrectionMetrics(corrected, successes)]
               /\ pc' = "after_correction"
               /\ UNCHANGED error
          ELSE /\ error' = "TypeError"
               /\ pc' = "raised"
               /\ UNCHANGED stage_return
    /\ UNCHANGED << config, models_loaded, error_reported, diarization_csv, asr_csv,
                    summarization_csv, minutes_txt, metrics_json, temp_files,
                    all_metrics, results, index, successes, speaker_texts,
                    temp_file, model_calls >>

\* all_metrics["correction"] = correction_metrics
AfterCorrection ==
    /\ pc = "after_correction"
    /\ all_metrics' = WithMetrics(all_metrics, "correction", stage_return.metrics)
    /\ pc' = DriverNext("correction")
    /\ log' = Append(log, "correction")
    /\ stage_return' = NoReturn
    /\ ResetLocals
    /\ UNCHANGED << config, models_loaded, error, error_reported, files,
                    temp_files >>

\* ------------------------------------------------------- test_summarization

\* The corrected_text values of one speaker's rows, in row order.
RECURSIVE GroupTexts(_, _)
GroupTexts(dataframe, speaker) ==
    IF dataframe = << >> THEN << >>
    ELSE IF Head(dataframe).speaker = speaker
         THEN << Head(dataframe).corrected_text >> \o GroupTexts(Tail(dataframe), speaker)
         ELSE GroupTexts(Tail(dataframe), speaker)

\* The group keys of groupby("speaker"), sorted.
GroupKeys(dataframe) ==
    SelectSeq(SpeakerOrder, LAMBDA sp : sp \in SpeakersOf(dataframe))

\* " ".join raises TypeError on a value that is not a string.
CanJoin(dataframe) ==
    \A i \in DOMAIN dataframe : IsStr(dataframe[i].corrected_text)

\* groupby("speaker")["corrected_text"].apply(" ".join).reset_index()
GroupBySpeaker(dataframe) ==
    LET keys == GroupKeys(dataframe) IN
    [ i \in 1..Len(keys) |->
        [ speaker |-> keys[i],
          corrected_text |-> JoinWithSpace(GroupTexts(dataframe, keys[i])) ] ]

\* load_summarization_model(); pd.read_csv(input_csv_path); the groupby
LoadSummarizationModel ==
    /\ pc = "test_summarization"
    /\ models_loaded' = models_loaded \cup {"summarization"}
    /\ IF ~correction_csv.exists
       THEN /\ error' = "FileNotFoundError"
            /\ pc' = "raised"
            /\ UNCHANGED locals
       ELSE LET dataframe == ReadCsv(correction_csv, {"text", "corrected_text"}) IN
            /\ input_dataframe' = dataframe
            /\ IF CanJoin(dataframe)
               THEN /\ speaker_texts' = GroupBySpeaker(dataframe)
                    /\ pc' = "summarize"
                    /\ UNCHANGED error
               ELSE /\ error' = "TypeError"
                    /\ pc' = "raised"
                    /\ UNCHANGED speaker_texts
            /\ UNCHANGED << results, index, successes, temp_file, model_calls >>
    /\ UNCHANGED << config, error_reported, files, temp_files, all_metrics,
                    stage_return, log >>

\* The truncation with the ellipsis marker left out.
ProcessedText_no_marker(original_text, maximum) ==
    IF Len(original_text) > maximum
    THEN Prefix(original_text, maximum)
    ELSE original_text

\* processed_text: original_text, cut to the configured maximum plus "...".
ProcessedText(original_text, maximum) ==
    IF Len(original_text) > maximum
    THEN Prefix(original_text, maximum) \o T_dots
    ELSE original_text

\* What the summarization model does with one text.
SummaryOutcomes ==
    { [kind |-> "raises", text |-> T_empty] }
    \cup { [kind |-> "returns", text |-> t] : t \in SummaryTexts }

\* except: return input_text[:200] + "...", False
FallbackSummary(input_text) == Prefix(input_text, FALLBACK_LENGTH) \o T_dots

\* summarize_text: (summary.strip(), True), or the fallback and False.
summarize_text(input_text, outcome) ==
    IF outcome.kind = "returns"
    THEN [text |-> strip(outcome.text), success |-> TRUE]
    ELSE [text |-> FallbackSummary(input_text), success |-> FALSE]

\* len(summary_text) / len(original_text) if len(original_text) > 0 else 0
CompressionRatio(summary_text, original_text) ==
    IF Len(original_text) > 0
    THEN << Len(summary_text), Len(original_text) >>
    ELSE << 0, 1 >>

SummaryRow(speaker, original_text, summary_text) ==
    [ speaker |-> speaker,
      original_text_length |-> Len(original_text),
      summary_length |-> Len(summary_text),
      compression_ratio |-> CompressionRatio(summary_text, original_text),
      summary |-> summary_text ]

\* One iteration of test_summarization's loop over speaker_texts.
SummarizeSpeaker ==
    /\ pc = "summarize"
    /\ index <= Len(speaker_texts)
    /\ \E outcome \in SummaryOutcomes :
         LET original_text == speaker_texts[index].corrected_text
             processed_text == ProcessedText(original_text, max_summary_input_length)
             r == summarize_text(processed_text, outcome)
         IN
         /\ results' = Append(results,
                              SummaryRow(speaker_texts[index].speaker, original_text, r.text))
         /\ successes' = IF r.success THEN successes + 1 ELSE successes
         /\ model_calls' =
              Append(model_calls, [kind |-> outcome.kind, text |-> processed_text])
    /\ index' = index + 1
    /\ UNCHANGED << pc, config, models_loaded, error, error_reported, files,
                    temp_files, all_metrics, stage_return, input_dataframe,
                    speaker_texts, temp_file, log >>

RECURSIVE TotalOriginalLength(_)
TotalOriginalLength(rows) ==
    IF rows = << >> THEN 0
    ELSE Head(rows).original_text_length + TotalOriginalLength(Tail(rows))

SummarizationMetrics(rows, groups, successful_summaries) ==
    [ speakers_count |-> Len(groups),
      successful_summaries |-> successful_summaries,
      success_rate |-> Rate(successful_summaries, Len(groups)),
      total_characters_processed |-> TotalOriginalLength(rows) ]

\* The rest of test_summarization, once the loop has ended.
FinishSummarization ==
    /\ pc = "summarize"
    /\ index > Len(speaker_texts)
    /\ summarization_csv' = File(ToCsv(results, {"summary"}))
    /\ log' = Append(log, "summarization_csv")
    /\ stage_return' =
         [dataframe |-> results,
          metrics |-> SummarizationMetrics(results, speaker_texts, successes)]
    /\ pc' = "after_summarization"
    /\ UNCHANGED << config, models_loaded, error, error_reported, diarization_csv,
                    asr_csv, correction_csv, minutes_txt, metrics_json, temp_files,
                    all_metrics, locals >>

\* all_metrics["summarization"] = summarization_metrics
AfterSummarization ==
    /\ pc = "after_summarization"
    /\ all_metrics' = WithMetrics(all_metrics, "summarization", stage_return.metrics)
    /\ pc' = DriverNext("summarization")
    /\ log' = Append(log, "summarization")
    /\ stage_return' = NoReturn
    /\ ResetLocals
    /\ UNCHANGED << config, models_loaded, error, error_reported, files,
                    temp_files >>

\* f"{row['summary']}": a missing value is written as "nan".
FormatCell(v) == IF v = NaN THEN << "n", "a", "n" >> ELSE v

\* The per-speaker blocks of the minutes document.
MinutesBlocks(dataframe) ==
    [ i \in 1..Len(dataframe) |->
        [ speaker |-> dataframe[i].speaker, summary |-> FormatCell(dataframe[i].summary) ] ]

\* create_meeting_minutes(summarization_output_path, minutes_output_path)
CreateMeetingMinutes ==
    /\ pc = "create_meeting_minutes"
    /\ IF ~summarization_csv.exists
       THEN /\ error' = "FileNotFoundError"
            /\ pc' = "raised"
            /\ UNCHANGED << minutes_txt, log >>
       ELSE /\ minutes_txt' = File(MinutesBlocks(ReadCsv(summarization_csv, {"summary"})))
            /\ log' = Append(log, "minutes_txt")
            /\ pc' = DriverNext("minutes")
            /\ UNCHANGED error
    /\ UNCHANGED << config, models_loaded, error_reported, diarization_csv, asr_csv,
                    correction_csv, summarization_csv, metrics_json, temp_files,
                    all_metrics, stage_return, locals >>

\* convert_metrics_for_json: the metrics are plain numbers already.
convert_metrics_for_json(metrics) == metrics

\* json.dump(json_metrics, metrics_file); return all_metrics
SaveMetrics ==
    /\ pc = "save_metrics"
    /\ metrics_json' = File(convert_metrics_for_json(all_metrics))
    /\ log' = Append(log, "metrics_json")
    /\ pc' = DriverNext("report")
    /\ UNCHANGED << config, models_loaded, error, error_reported, diarization_csv,
                    asr_csv, correction_csv, summarization_csv, minutes_txt,
                    temp_files, all_metrics, stage_return, locals >>

Next ==
    \/ RunAllTestsMain
    \/ TestDiarizationMain
    \/ LoadDiarizationModel
    \/ Diarize
    \/ AfterDiarization
    \/ LoadAsrModel
    \/ TranscribeTry
    \/ TranscribeFinally
    \/ FinishSpeechRecognition
    \/ AfterSpeechRecognition
    \/ LoadCorrectionModel
    \/ CorrectSegment
    \/ FinishCorrection
    \/ AfterCorrection
    \/ LoadSummarizationModel
    \/ SummarizeSpeaker
    \/ FinishSummarization
    \/ AfterSummarization
    \/ CreateMeetingMinutes
    \/ SaveMetrics

Spec == Init /\ [][Next]_vars

\* ================================================================ claims

OutputFilesAfter(stage) ==
    CASE stage = "diarization" ->
           { asr_csv, correction_csv, summarization_csv, minutes_txt, metrics_json }
      [] stage = "asr" ->
           { correction_csv, summarization_csv, minutes_txt, metrics_json }

HasMetrics(stage) == stage \in DOMAIN all_metrics

\* The diarization stage returned an empty table: its metrics are the ones of
\* the empty return.
DiarizationWasEmpty ==
    HasMetrics("diarization") /\ all_metrics["diarization"].segments_count = 0

\* The recognition stage returned an empty table.
RecognitionWasEmpty ==
    HasMetrics("asr") /\ "segments_with_speech" \notin DOMAIN all_metrics["asr"]

\* C1: when the diarization or the recognition stage returns an empty table,
\* run_complete_pipeline returns at once: the metrics hold exactly the
\* entries of the stages up to that one, no later stage has run (its model
\* is not loaded) and no later output file exists; the empty stage wrote no
\* table of its own.
C1_StopsOnEmptyTable ==
    /\ (pc = "after_diarization" /\ stage_return.dataframe = << >>)
         => /\ stage_return.metrics.segments_count = 0
            /\ ~diarization_csv.exists
    /\ (pc = "after_asr" /\ stage_return.dataframe = << >>)
         => /\ "segments_with_speech" \notin DOMAIN stage_return.metrics
            /\ ~asr_csv.exists
    /\ DiarizationWasEmpty
         => /\ pc = "returned"
            /\ DOMAIN all_metrics = { "diarization" }
            /\ models_loaded = { "diarization" }
            /\ \A f \in OutputFilesAfter("diarization") : ~f.exists
    /\ RecognitionWasEmpty
         => /\ pc = "returned"
            /\ DOMAIN all_metrics = { "diarization", "asr" }
            /\ models_loaded = { "diarization", "asr" }
            /\ \A f \in OutputFilesAfter("asr") : ~f.exists

\* C1 witness: the recognition stage dropped every segment of a non-empty
\* diarization table and the driver has returned.
C1_Witness ==
    /\ pc = "returned"
    /\ RecognitionWasEmpty
    /\ diarization_csv.exists
    /\ Len(diarization_csv.rows) = 2

\* C2: once the diarization and recognition tables are non-empty, no
\* exception leaves a stage, whatever the model calls return or raise.
C2_NoExceptionLeavesAStage ==
    (diarization_csv.exists /\ asr_csv.exists) => pc # "raised"

\* The correction stage is at work, or has ended (returned or raised).
InCorrection ==
    \/ pc \in { "correct", "after_correction" }
    \/ pc = "raised" /\ correction_csv.exists /\ "summarization" \notin models_loaded

InputColumns ==
    { "speaker", "start_time", "end_time", "duration", "text", "word_count" }

\* C3: the correction stage keeps every row: the table it writes has the
\* rows of its input, in order, with the input columns as they were read;
\* a row whose correction call raised has corrected_text equal to its text;
\* with every call raising the success rate is 0.
C3_CorrectionKeepsRows ==
    /\ correction_csv.exists
         => LET input == ReadCsv(asr_csv, {"text"})
                output == ReadCsv(correction_csv, {"text", "corrected_text"})
            IN /\ Len(output) = Len(input)
               /\ \A i \in DOMAIN input :
                    /\ DOMAIN output[i] = InputColumns \cup { "corrected_text" }
                    /\ \A c \in InputColumns : output[i][c] = input[i][c]
    /\ InCorrection
         => /\ Len(results) = Len(model_calls)
            /\ \A i \in DOMAIN model_calls :
                 model_calls[i].kind = "raises" => results[i] = input_dataframe[i].text
    /\ (InCorrection /\ correction_csv.exists)
         => /\ Len(input_dataframe) = Len(model_calls)
            /\ \A i \in DOMAIN model_calls :
                 model_calls[i].kind = "raises"
                   => input_dataframe[i].corrected_text = input_dataframe[i].text
    /\ pc = "after_correction"
         => /\ stage_return.dataframe = input_dataframe
            /\ (\A i \in DOMAIN model_calls : model_calls[i].kind = "raises")
                 => stage_return.metrics.success_rate[1] = 0

\* C3 witness: two rows, one corrected and one whose call raised, and the
\* failed row "helo wrld" kept as its own correction.
C3_Witness ==
    /\ pc = "after_correction"
    /\ Len(model_calls) = 2
    /\ model_calls[1].kind = "returns"
    /\ model_calls[2].kind = "raises"
    /\ stage_return.dataframe[2].text = T_helo
    /\ stage_return.dataframe[2].corrected_text = T_helo

Placeholders == { T_empty, T_dot, T_dots }

\* The recognition stage is at work or has just returned.
InRecognition == pc \in { "transcribe", "transcribe_finally", "after_asr" }

\* The transcription call of segment i returned a text that is speech.
CallGaveSpeech(i) ==
    /\ model_calls[i].kind = "returns"
    /\ strip(model_calls[i].text) \notin Placeholders

\* The segments tried so far whose call gave speech, in order.
SpeechSegments ==
    SelectSeq([i \in 1..Len(model_calls) |-> i], CallGaveSpeech)

\* C4: the recognition stage emits a row for a segment exactly when its
\* transcription call returned and the trimmed text is none of "", ".",
\* "..."; the row carries that trimmed text; a skipped segment does not end
\* the loop; no row of the written table has an empty or placeholder text.
C4_RecognitionEmitsOnlySpeech ==
    /\ InRecognition
         => /\ Len(results) = Len(SpeechSegments)
            /\ \A k \in DOMAIN results :
                 LET i == SpeechSegments[k] IN
                 /\ results[k].text = strip(model_calls[i].text)
                 /\ results[k].text \notin Placeholders
                 /\ results[k].speaker = input_dataframe[i].speaker
                 /\ results[k].start_time = input_dataframe[i].start_time
    /\ pc = "after_asr"
         => /\ Len(model_calls) = Len(input_dataframe)
            /\ Len(stage_return.dataframe) = Len(SpeechSegments)
    /\ asr_csv.exists
         => \A k \in DOMAIN asr_csv.rows : asr_csv.rows[k].text \notin Placeholders

\* C4 witness: the first segment's call returned the placeholder " .", the
\* loop went on, the second returned speech, and the stage wrote one row.
C4_Witness ==
    /\ pc = "after_asr"
    /\ Len(model_calls) = 2
    /\ model_calls[1].kind = "returns"
    /\ strip(model_calls[1].text) = T_dot
    /\ model_calls[2].kind = "returns"
    /\ Len(asr_csv.rows) = 1
    /\ asr_csv.rows[1].text = T_helo

\* The summarization stage is looping over the speakers or has just returned.
InSummarization == pc \in { "summarize", "after_summarization" }

\* C5: the text handed to the summarizer is the speaker's aggregated text
\* when that is no longer than the configured maximum, and otherwise its
\* first maximum characters followed by "..."; it is never longer than the
\* maximum plus 3.
C5_SummarizerInputIsTruncated ==
    InSummarization
      => \A i \in DOMAIN model_calls :
           LET T == speaker_texts[i].corrected_text
               P == model_calls[i].text
               maximum == max_summary_input_length
           IN /\ Len(T) <= maximum => P = T
              /\ Len(T) > maximum
                   => /\ Len(P) = maximum + 3
                      /\ \A k \in 1..maximum : P[k] = T[k]
                      /\ \A k \in (maximum + 1)..(maximum + 3) : P[k] = "."
              /\ Len(P) <= maximum + 3

\* C5 witness: under the default maximum of 2000 a speaker's text of more
\* than 2000 characters has been handed to the summarizer.
C5_Witness ==
    /\ InSummarization
    /\ max_summary_input_length = MAX_SUMMARY_INPUT_LENGTH
    /\ Len(model_calls) >= 1
    /\ Len(speaker_texts[1].corrected_text) > MAX_SUMMARY_INPUT_LENGTH
    /\ Len(model_calls[1].text) = MAX_SUMMARY_INPUT_LENGTH + 3

\* C6: when the summarization call of a speaker raises, the recorded summary
\* is the first 200 characters of the speaker's whole aggregated text
\* followed by "...", under every configured maximum, and the success
\* counter does not count the attempt.
C6_FallbackIsPrefixOfOriginal ==
    InSummarization
      => /\ \A i \in DOMAIN model_calls :
              model_calls[i].kind = "raises"
                => results[i].summary =
                     Prefix(speaker_texts[i].corrected_text, 200) \o T_dots
         /\ successes =
              Cardinality({ i \in DOMAIN model_calls : model_calls[i].kind = "returns" })

\* The rows of speaker sp in the table the summarization stage read.
RowsOf(sp) ==
    SelectSeq([i \in 1..Len(input_dataframe) |-> i],
              LAMBDA i : input_dataframe[i].speaker = sp)

\* Where the k-th text of speaker sp starts in the aggregated text, less one.
RECURSIVE Offset(_, _)
Offset(sp, k) ==
    IF k = 1 THEN 0
    ELSE Offset(sp, k - 1) + Len(input_dataframe[RowsOf(sp)[k - 1]].corrected_text) + 1

\* T is the texts of speaker sp's rows, in row order, one space between.
IsAggregateOf(T, sp) ==
    LET rows == RowsOf(sp)
        n == Len(rows)
    IN /\ n >= 1
       /\ Len(T) = Offset(sp, n) + Len(input_dataframe[rows[n]].corrected_text)
       /\ \A k \in 1..n :
            LET t == input_dataframe[rows[k]].corrected_text IN
            /\ SubSeq(T, Offset(sp, k) + 1, Offset(sp, k) + Len(t)) = t
            /\ k > 1 => T[Offset(sp, k)] = " "

\* C7: the summarization stage has exactly one row per distinct speaker of
\* its input table, and the original text of the row is the speaker's
\* corrected_text values in input row order joined by single spaces, whose
\* length is the row's original_text_length.
C7_OneRowPerSpeaker ==
    /\ InSummarization
         => /\ SpeakersOf(speaker_texts) = SpeakersOf(input_dataframe)
            /\ Len(speaker_texts) = Cardinality(SpeakersOf(input_dataframe))
            /\ \A i \in DOMAIN speaker_texts :
                 IsAggregateOf(speaker_texts[i].corrected_text, speaker_texts[i].speaker)
            /\ \A i \in DOMAIN results :
                 /\ results[i].speaker = speaker_texts[i].speaker
                 /\ results[i].original_text_length = Len(speaker_texts[i].corrected_text)
    /\ pc = "after_summarization" => Len(results) = Len(speaker_texts)
    /\ summarization_csv.exists
         => /\ SpeakersOf(summarization_csv.rows) = SpeakersOf(correction_csv.rows)
            /\ Len(summarization_csv.rows) = Cardinality(SpeakersOf(correction_csv.rows))

\* C7 witness: speaker A's rows "Hi." and "there." were summarized as
\* "Hi. there.", and speaker B has a row of its own.
C7_Witness ==
    /\ pc = "after_summarization"
    /\ Len(input_dataframe) = 2
    /\ input_dataframe[1].speaker = "A"
    /\ input_dataframe[2].speaker = "A"
    /\ input_dataframe[1].corrected_text = T_Hi
    /\ input_dataframe[2].corrected_text = T_there
    /\ speaker_texts[1].corrected_text = T_Hi \o <<" ">> \o T_there
    /\ results[1].original_text_length = 10

AllFiles ==
    { diarization_csv, asr_csv, correction_csv, summarization_csv,
      minutes_txt, metrics_json }

\* C8: with the input audio file missing nothing is started: no model is
\* loaded, no metrics entry is recorded and no file is created.
C8_MissingInputStartsNothing ==
    ~audio_exists
      => /\ models_loaded = {}
         /\ DOMAIN all_metrics = {}
         /\ \A f \in AllFiles : ~f.exists
         /\ temp_files = {}

StageNames == { Stages[i] : i \in DOMAIN Stages }

\* The stages completed and the two final files written, in order.
Milestones ==
    SelectSeq(log, LAMBDA e : e \in StageNames \cup { "minutes_txt", "metrics_json" })

\* C9: the minutes and the report are written only after the four stages
\* have completed in the order diarization, recognition, correction,
\* summarization, the minutes before the report; the report has exactly the
\* four stage keys; a run that stopped on an empty table wrote neither.
C9_MinutesAndReportComeLast ==
    /\ minutes_txt.exists
         => /\ Len(Milestones) >= 5
            /\ SubSeq(Milestones, 1, 4) = Stages
            /\ Milestones[5] = "minutes_txt"
            /\ DOMAIN all_metrics = StageNames
    /\ metrics_json.exists
         => /\ minutes_txt.exists
            /\ Milestones = Stages \o << "minutes_txt", "metrics_json" >>
            /\ DOMAIN metrics_json.rows = StageNames
    /\ (DiarizationWasEmpty \/ RecognitionWasEmpty)
         => ~minutes_txt.exists /\ ~metrics_json.exists

\* C9 witness: a whole run has returned with the report written.
C9_Witness ==
    /\ pc = "returned"
    /\ metrics_json.exists
    /\ minutes_txt.exists
    /\ Len(minutes_txt.rows) = 2

\* C10: the temporary audio file of a segment is gone when the segment's
\* attempt has ended: a temporary file exists only between the try block and
\* the finally block of its own segment, so none exists when the next
\* segment starts or when the stage returns.
C10_NoTempFileSurvives ==
    /\ pc # "transcribe_finally" => temp_files = {}
    /\ pc = "transcribe_finally" => temp_files \subseteq { temp_file }

\* C10 witness: the export of the first segment raised with its file already
\* created, the transcription of the second raised, and the stage has
\* returned with no temporary file left.
C10_Witness ==
    /\ pc = "after_asr"
    /\ Len(model_calls) = 2
    /\ model_calls[1].kind = "export_raises"
    /\ model_calls[1].created
    /\ model_calls[2].kind = "asr_raises"
    /\ temp_files = {}

\* The turn meets the configured minimum duration.
MeetsThreshold(turn) == turn.end - turn.start >= MIN_SEGMENT_DURATION

\* The row is the segment of the turn.
RowIsTurn(row, turn) ==
    /\ row.speaker = turn.speaker
    /\ row.start_time = turn.start
    /\ row.end_time = turn.end

WellFormedSegment(row) ==
    /\ row.end_time > row.start_time
    /\ row.duration = row.end_time - row.start_time
    /\ row.duration >= MIN_SEGMENT_DURATION

\* C11: whatever turns the diarization model yields, every segment of
\* perform_diarization's result has end_time > start_time and duration =
\* end_time - start_time >= MIN_SEGMENT_DURATION, and every yielded turn that
\* meets the threshold is kept (as often as it was yielded); when no turn
\* meets it the result is empty and segments_count is 0.
C11_SegmentsMeetMinimumDuration ==
    /\ pc = "after_diarization"
         => LET turns == model_calls
                rows == stage_return.dataframe
            IN /\ \A k \in DOMAIN rows : WellFormedSegment(rows[k])
               /\ \A t \in Turns :
                    MeetsThreshold(t)
                      => Cardinality({ k \in DOMAIN rows : RowIsTurn(rows[k], t) })
                           = Cardinality({ i \in DOMAIN turns : turns[i] = t })
               /\ Len(rows) =
                    Cardinality({ i \in DOMAIN turns : MeetsThreshold(turns[i]) })
               /\ (\A i \in DOMAIN turns : ~MeetsThreshold(turns[i]))
                    => /\ rows = << >>
                       /\ stage_return.metrics.segments_count = 0
               /\ stage_return.metrics.segments_count = Len(rows)
    /\ diarization_csv.exists
         => \A k \in DOMAIN diarization_csv.rows : WellFormedSegment(diarization_csv.rows[k])

\* C11 witness: the model yielded a turn below the minimum and a turn exactly
\* at it; only the second is in the result.
C11_Witness ==
    /\ pc = "after_diarization"
    /\ Len(model_calls) = 2
    /\ model_calls[1].end - model_calls[1].start < MIN_SEGMENT_DURATION
    /\ model_calls[2].end - model_calls[2].start = MIN_SEGMENT_DURATION
    /\ Len(stage_return.dataframe) = 1
    /\ stage_return.dataframe[1].duration = MIN_SEGMENT_DURATION

\* The rows are in ascending start_time order.
Ascending(rows) ==
    \A i, j \in DOMAIN rows : i < j => rows[i].start_time <= rows[j].start_time

\* C12: a diarization or recognition table, once written, has its rows in
\* ascending start_time order, whatever order the turns were yielded in and
\* whichever segments the recognition stage skipped; the tables the two
\* stages return are in that order too.
C12_TablesAscendingByStartTime ==
    /\ diarization_csv.exists => Ascending(diarization_csv.rows)
    /\ asr_csv.exists => Ascending(asr_csv.rows)
    /\ pc \in { "after_diarization", "after_asr" } => Ascending(stage_return.dataframe)

\* C12 witness: the model yielded the later turn first and the table was
\* written with the earlier turn first.
C12_Witness ==
    /\ pc = "after_diarization"
    /\ Len(model_calls) = 2
    /\ model_calls[1].start > model_calls[2].start
    /\ Len(diarization_csv.rows) = 2
    /\ diarization_csv.rows[1].start_time < diarization_csv.rows[2].start_time

SegmentColumns == { "speaker", "start_time", "end_time", "duration" }

\* The two rows agree on speaker, start_time, end_time and duration.
SameSegment(a, b) == \A c \in SegmentColumns : a[c] = b[c]

\* Every row of rows comes from a row of segments, distinct rows from
\* distinct segments.
ComeFromDistinctSegments(rows, segments) ==
    \E f \in [DOMAIN rows -> DOMAIN segments] :
        /\ \A i, j \in DOMAIN rows : i # j => f[i] # f[j]
        /\ \A i \in DOMAIN rows : SameSegment(rows[i], segments[f[i]])

\* C13: speaker labels pass through unchanged: a recognition row carries the
\* speaker, start_time, end_time and duration of the diarization segment it
\* was transcribed from, distinct rows coming from distinct segments; a
\* correction row keeps the speaker of its recognition row; the speakers of
\* the summarization table are exactly those of the correction table.
C13_SpeakersPropagateUnchanged ==
    /\ InRecognition
         => /\ Len(input_dataframe) = Len(diarization_csv.rows)
            /\ \A i \in DOMAIN input_dataframe :
                 SameSegment(input_dataframe[i], diarization_csv.rows[i])
            /\ \A k \in DOMAIN results :
                 SameSegment(results[k], diarization_csv.rows[SpeechSegments[k]])
            /\ \A k \in 1..(Len(SpeechSegments) - 1) :
                 SpeechSegments[k] < SpeechSegments[k + 1]
    /\ asr_csv.exists
         => /\ ComeFromDistinctSegments(asr_csv.rows, diarization_csv.rows)
            /\ SpeakersOf(asr_csv.rows) \subseteq SpeakersOf(diarization_csv.rows)
    /\ correction_csv.exists
         => /\ Len(correction_csv.rows) = Len(asr_csv.rows)
            /\ \A i \in DOMAIN correction_csv.rows :
                 correction_csv.rows[i].speaker = asr_csv.rows[i].speaker
    /\ summarization_csv.exists
         => SpeakersOf(summarization_csv.rows) = SpeakersOf(correction_csv.rows)

\* C13 witness: segments of speakers A and B went through all four stages.
C13_Witness ==
    /\ summarization_csv.exists
    /\ Len(diarization_csv.rows) = 2
    /\ Len(asr_csv.rows) = 2
    /\ SpeakersOf(diarization_csv.rows) = { "A", "B" }
    /\ SpeakersOf(summarization_csv.rows) = { "A", "B" }

TableNames == { "diarization_csv", "asr_csv", "correction_csv", "summarization_csv" }

\* How often the file was written so far.
TimesWritten(events, name) ==
    Cardinality({ i \in DOMAIN events : events[i] = name })

\* One step of a run writes at most the table of the stage it belongs to, and
\* never changes a table that exists.
WritesOnlyOwnTable ==
    /\ diarization_csv' # diarization_csv
         => pc = "diarize" /\ ~diarization_csv.exists
    /\ asr_csv' # asr_csv
         => pc = "transcribe" /\ ~asr_csv.exists /\ diarization_csv' = diarization_csv
    /\ correction_csv' # correction_csv
         => /\ pc = "correct" /\ ~correction_csv.exists
            /\ diarization_csv' = diarization_csv /\ asr_csv' = asr_csv
    /\ summarization_csv' # summarization_csv
         => /\ pc = "summarize" /\ ~summarization_csv.exists
            /\ diarization_csv' = diarization_csv /\ asr_csv' = asr_csv
            /\ correction_csv' = correction_csv
    /\ \A name \in TableNames : TimesWritten(log', name) <= 1
    /\ TimesWritten(log', "diarization_csv") = IF diarization_csv'.exists THEN 1 ELSE 0
    /\ TimesWritten(log', "asr_csv") = IF asr_csv'.exists THEN 1 ELSE 0
    /\ TimesWritten(log', "correction_csv") = IF correction_csv'.exists THEN 1 ELSE 0
    /\ TimesWritten(log', "summarization_csv") = IF summarization_csv'.exists THEN 1 ELSE 0

\* C14: within one run each stage's output table is written at most once,
\* by its own stage only, and is never changed afterwards: a stage leaves
\* the tables of the earlier stages as they are.
C14_TablesWrittenOnce == [][WritesOnlyOwnTable]_vars

\* C14 witness: a run has returned with the four tables written, each once.
C14_Witness ==
    /\ pc = "returned"
    /\ diarization_csv.exists
    /\ asr_csv.exists
    /\ correction_csv.exists
    /\ summarization_csv.exists
    /\ \A name \in TableNames : TimesWritten(log, name) = 1

====
